---- MODULE Spec2Model ----
(***************************************************************************)
(* Model of checkbox_ng/urwid_ui.py: the CategoryBrowser job-selection     *)
(* tree (FlagUnitWidget flag propagation, the module-level widget cache,   *)
(* job-info list and show_job_ids switch) and the TestPlanBrowser          *)
(* single-choice picker.                                                   *)
(***************************************************************************)
EXTENDS Integers, Sequences, FiniteSets, TLC

\* ------------------------------------------------------------- bounds
MaxJobs == 3
MaxPlans == 3

\* ------------------------------------------------------------- universe
\* Job ids and category ids are unit ids of one namespace: the jobs are
\* 1..MaxJobs, the categories are A = 11 and B = 12.
JobIds == 1..MaxJobs
CategoryIds == {11, 12}
Browsers == {1, 2}

\* An optional integer: Python's None, or the integer i.
None == <<>>
Some(i) == <<i>>

\* job.tr_summary(): the translated summary of a job, never equal to its id.
tr_summary(id) == 200 + id

\* get_category(c).tr_name(): the translated name of a category; the order of
\* the names is the reverse of the order of the ids.
tr_name(c) == 100 - c

\* ------------------------------------------------------------- tree nodes
\* urwid nodes are identified by their kind and key; the root has no key.
RootNode == [kind |-> "root", key |-> 0]
CatNode(c) == [kind |-> "cat", key |-> c]
JobNode(j) == [kind |-> "job", key |-> j]

\* TreeWidget.is_leaf: the node has no get_first_child, i.e. it is a JobNode.
is_leaf(n) == n.kind = "job"

\* TreeNode.get_depth().
get_depth(n) == IF n.kind = "root" THEN 0 ELSE IF n.kind = "cat" THEN 1 ELSE 2

\* CategoryNode.load_child_node: a CategoryNode under the root, a JobNode
\* under any other category node.
load_child_node(n, key) == IF get_depth(n) = 0 THEN CatNode(key) ELSE JobNode(key)

\* ------------------------------------------------------------- sorting
\* Python's sorted() on <<sort key, value>> pairs: insertion of each element
\* after the elements whose sort key is not greater (stable).
RECURSIVE InsertSorted(_, _)
InsertSorted(p, s) ==
    IF s = <<>> THEN <<p>>
    ELSE IF p[1] < Head(s)[1] THEN <<p>> \o s
    ELSE <<Head(s)>> \o InsertSorted(p, Tail(s))

RECURSIVE sorted(_)
sorted(pairs) ==
    IF pairs = <<>> THEN <<>>
    ELSE InsertSorted(pairs[Len(pairs)], sorted(SubSeq(pairs, 1, Len(pairs) - 1)))

Values(pairs) == [i \in 1..Len(pairs) |-> pairs[i][2]]

\* An iteration order of a set (the order in which a Python collection built
\* from a set yields its elements is not specified).
RECURSIVE SetToSeq(_)
SetToSeq(S) ==
    IF S = {} THEN <<>>
    ELSE LET x == CHOOSE x \in S : \A y \in S : x >= y
         IN <<x>> \o SetToSeq(S \ {x})

\* ------------------------------------------------------------- state
VARIABLES
    test_info_list,   \* module global: tuple of {id, name, category_id}
    widget_cache,     \* module global _widget_cache: job id -> widget
    show_job_ids,     \* module global
    pc,               \* per browser object: none, built, failed, running, done
    sa,               \* per browser: the session assistant it was given
    child_keys,       \* per browser: ParentNode._child_keys of each loaded node
    flagged,          \* per browser: FlagUnitWidget.flagged of each widget
    expanded,         \* per browser: TreeWidget.expanded of each widget
    label,            \* per browser: text of the inner widget of each widget
    selection,        \* per browser: the frozenset run() returned
    earlier_unflagged,\* history: an earlier run() met an unflagged job widget
    plan_pc,          \* TestPlanBrowser: idle, running, returned, raised
    test_plan_list,   \* TestPlanBrowser argument: number of plan labels
    plan_selection,   \* TestPlanBrowser argument: selection
    radio_button_group, \* TestPlanBrowser: state of each RadioButton
    plan_changed,     \* history: the user chose an entry in this call
    plan_result       \* TestPlanBrowser: the returned value

browser_vars == <<test_info_list, widget_cache, show_job_ids, pc, sa, child_keys,
                  flagged, expanded, label, selection, earlier_unflagged>>
plan_vars == <<plan_pc, test_plan_list, plan_selection, radio_button_group,
               plan_changed, plan_result>>
vars == <<browser_vars, plan_vars>>

\* The empty mapping (a function with empty domain).
Empty == <<>>

\* ------------------------------------------------------------- widgets
\* A heap h gathers what tree operations of one browser read and write:
\* [child_keys, flagged, expanded, label, cache].

\* Mutation of get_display_text: the two display modes swapped.
get_display_text_swapped(n, show) ==
    IF n.kind = "job" THEN (IF show THEN 200 + n.key ELSE n.key)
    ELSE IF n.kind = "root" THEN 0
    ELSE 100 - n.key

\* JobTreeWidget.get_display_text / CategoryWidget.get_display_text.
get_display_text(n, show) ==
    IF n.kind = "job" THEN (IF show THEN n.key ELSE tr_summary(n.key))
    ELSE IF get_depth(n) = 0 THEN 0
    ELSE tr_name(n.key)

\* Mutation of add_widget: the widget is not registered.
add_widget_not_registered(cache, id, widget) == cache

\* add_widget(id, widget): _widget_cache[id] = widget.
add_widget(cache, id, widget) ==
    [k \in (DOMAIN cache) \cup {id} |-> IF k = id THEN widget ELSE cache[k]]

\* TreeNode.get_widget(): load_widget() on first use.  FlagUnitWidget.__init__
\* sets flagged; CategoryWidget.__init__ collapses every node but the root;
\* JobTreeWidget.__init__ registers the widget in the cache.
get_widget(h, b, n, show) ==
    IF n \in DOMAIN h.flagged THEN h
    ELSE [h EXCEPT
            !.flagged = (n :> TRUE) @@ @,
            !.expanded = (n :> (is_leaf(n) \/ get_depth(n) = 0)) @@ @,
            !.label = (n :> get_display_text(n, show)) @@ @,
            !.cache = IF n.kind = "job"
                      THEN add_widget(@, n.key, [browser |-> b, node |-> n])
                      ELSE @]

\* Mutation of load_child_keys: the categories are ordered by their id.
load_child_keys_by_id(n, til, s) ==
    IF get_depth(n) = 0
    THEN LET cats == SetToSeq(s.participating)
         IN Values(sorted([i \in 1..Len(cats) |-> <<cats[i], cats[i]>>]))
    ELSE LET mine == SelectSeq(til, LAMBDA job : job.category_id = n.key)
         IN Values(sorted([i \in 1..Len(mine) |-> <<mine[i].id, mine[i].id>>]))

\* CategoryNode.load_child_keys.
load_child_keys(n, til, s) ==
    IF get_depth(n) = 0
    THEN LET cats == SetToSeq(s.participating)
         IN Values(sorted([i \in 1..Len(cats) |-> <<tr_name(cats[i]), cats[i]>>]))
    ELSE LET mine == SelectSeq(til, LAMBDA job : job.category_id = n.key)
         IN Values(sorted([i \in 1..Len(mine) |-> <<mine[i].id, mine[i].id>>]))

\* ParentNode.get_child_keys(): load_child_keys() on first use.
get_child_keys(h, n, til, s) ==
    IF n \in DOMAIN h.child_keys THEN h
    ELSE [h EXCEPT !.child_keys = (n :> load_child_keys(n, til, s)) @@ @]

\* update_w() raises AttributeError on a widget that has no _w, the wrapped
\* widget that holds the inner widget whose text `label` records.
update_w_raises(h, n) == n \notin DOMAIN h.label

\* FlagUnitWidget.set_descendants_state: the for loop, from child index i.
RECURSIVE set_descendants_state(_, _, _, _, _, _, _), descendants_loop(_, _, _, _, _, _, _, _)
descendants_loop(h, b, n, i, new_state, til, s, show) ==
    IF i > Len(h.child_keys[n]) THEN h
    ELSE LET child == load_child_node(n, h.child_keys[n][i])
             h1 == get_widget(h, b, child, show)
             h2 == [h1 EXCEPT !.flagged[child] = new_state]
         IN IF update_w_raises(h2, child) THEN h2
            ELSE descendants_loop(
                    set_descendants_state(h2, b, child, new_state, til, s, show),
                    b, n, i + 1, new_state, til, s, show)

\* Mutation of set_descendants_state: nothing is done when clearing.
set_descendants_state_true_only(h, b, n, new_state, til, s, show) ==
    IF is_leaf(n) \/ ~new_state THEN h
    ELSE descendants_loop(get_child_keys(h, n, til, s), b, n, 1, new_state, til, s, show)

set_descendants_state(h, b, n, new_state, til, s, show) ==
    IF is_leaf(n) THEN h
    ELSE descendants_loop(get_child_keys(h, n, til, s), b, n, 1, new_state, til, s, show)

\* The parent of the root: no node.
NoNode == [kind |-> "none", key |-> 0]

\* TreeNode.get_parent().
get_parent(n, ck) ==
    IF n.kind = "root" THEN NoNode
    ELSE IF n.kind = "cat" THEN RootNode
    ELSE CHOOSE p \in DOMAIN ck :
            p.kind = "cat" /\ \E i \in 1..Len(ck[p]) : ck[p][i] = n.key

\* Mutation of any_child_flagged: some sibling always counts as flagged.
any_child_flagged_always(h, parent) == TRUE

\* Mutation of any_child_flagged: the siblings are not looked at.
any_child_flagged_none(h, parent) == FALSE

\* any(child widget flagged for key in parent.get_child_keys()).
any_child_flagged(h, parent) ==
    \E i \in 1..Len(h.child_keys[parent]) :
        h.flagged[load_child_node(parent, h.child_keys[parent][i])]

\* Mutation of ancestors_loop: every ancestor gets new_state, whatever the
\* flags of its other children.
RECURSIVE ancestors_loop_unconditional(_, _, _, _)
ancestors_loop_unconditional(h, parent, self_flagged, new_state) ==
    IF parent = NoNode THEN h
    ELSE ancestors_loop_unconditional([h EXCEPT !.flagged[parent] = new_state],
                                      get_parent(parent, h.child_keys),
                                      self_flagged, new_state)

\* FlagUnitWidget.set_ancestors_state: the two while loops, from `parent`.
RECURSIVE ancestors_loop(_, _, _, _)
ancestors_loop(h, parent, self_flagged, new_state) ==
    IF parent = NoNode THEN h
    ELSE IF self_flagged
    THEN ancestors_loop([h EXCEPT !.flagged[parent] = new_state],
                        get_parent(parent, h.child_keys), self_flagged, new_state)
    ELSE IF any_child_flagged(h, parent) THEN h
    ELSE ancestors_loop([h EXCEPT !.flagged[parent] = new_state],
                        get_parent(parent, h.child_keys), self_flagged, new_state)

\* Mutation of set_ancestors_state: only the direct parent is updated.
set_ancestors_state_parent_only(h, n, new_state) ==
    LET parent == get_parent(n, h.child_keys)
    IN IF parent = NoNode \/ (~h.flagged[n] /\ any_child_flagged(h, parent)) THEN h
       ELSE [h EXCEPT !.flagged[parent] = new_state]

set_ancestors_state(h, n, new_state) ==
    ancestors_loop(h, get_parent(n, h.child_keys), h.flagged[n], new_state)

\* The heap of browser b, and its write-back.
Heap(b) == [child_keys |-> child_keys[b], flagged |-> flagged[b],
            expanded |-> expanded[b], label |-> label[b], cache |-> widget_cache]

Store(b, h) ==
    /\ child_keys' = [child_keys EXCEPT ![b] = h.child_keys]
    /\ flagged' = [flagged EXCEPT ![b] = h.flagged]
    /\ expanded' = [expanded EXCEPT ![b] = h.expanded]
    /\ label' = [label EXCEPT ![b] = h.label]
    /\ widget_cache' = h.cache

\* ------------------------------------------------------------- inputs
\* A static todo list: the jobs of a subset of JobIds, each with its effective
\* category, in descending id order.
TodoLists ==
    UNION {[S -> CategoryIds] : S \in SUBSET JobIds}

job_units(todo) ==
    LET ids == SetToSeq(DOMAIN todo)
    IN [i \in 1..Len(ids) |->
          [id |-> ids[i], name |-> tr_summary(ids[i]), category_id |-> todo[ids[i]]]]

\* A session assistant: the categories it reports as participating and the
\* categories its registry knows.
SessionAssistants ==
    [participating : SUBSET CategoryIds, registered : SUBSET CategoryIds]

\* sa.get_category(c) raises KeyError (a LookupError) for an unknown category.
get_category_raises(s, c) == c \notin s.registered

NoSa == [participating |-> {}, registered |-> {}]

\* ------------------------------------------------------------- CategoryBrowser
Init ==
    /\ test_info_list = <<>>
    /\ widget_cache = Empty
    /\ show_job_ids = FALSE
    /\ pc = [b \in Browsers |-> "none"]
    /\ sa = [b \in Browsers |-> NoSa]
    /\ child_keys = [b \in Browsers |-> Empty]
    /\ flagged = [b \in Browsers |-> Empty]
    /\ expanded = [b \in Browsers |-> Empty]
    /\ label = [b \in Browsers |-> Empty]
    /\ selection = [b \in Browsers |-> {}]
    /\ earlier_unflagged = FALSE
    /\ plan_pc = "idle"
    /\ test_plan_list = 0
    /\ plan_selection = None
    /\ radio_button_group = <<>>
    /\ plan_changed = FALSE
    /\ plan_result = None

NoneRunning == \A o \in Browsers : pc[o] # "running"

\* CategoryBrowser.__init__(title, sa) for a session assistant s whose static
\* todo list is todo: a new browser object in slot b.
ConstructWith(b, todo, s) ==
    /\ pc[b] \in {"none", "failed", "done"}
    /\ NoneRunning
    /\ LET til == job_units(todo)
           fresh == [child_keys |-> Empty, flagged |-> Empty, expanded |-> Empty,
                     label |-> Empty, cache |-> widget_cache]
           root == get_widget(fresh, b, RootNode, show_job_ids)
       IN /\ test_info_list' = til
          /\ selection' = [selection EXCEPT ![b] = {}]
          /\ IF \E c \in s.participating : get_category_raises(s, c)
             THEN /\ pc' = [pc EXCEPT ![b] = "failed"]
                  /\ sa' = [sa EXCEPT ![b] = NoSa]
                  /\ Store(b, fresh)
             ELSE /\ pc' = [pc EXCEPT ![b] = "built"]
                  /\ sa' = [sa EXCEPT ![b] = s]
                  /\ Store(b, set_descendants_state(root, b, RootNode, TRUE,
                                                    til, s, show_job_ids))
    /\ UNCHANGED <<show_job_ids, earlier_unflagged, plan_vars>>

\* CategoryBrowser.__init__ with any todo list and any session assistant.
Construct(b) ==
    \E todo \in TodoLists, s \in SessionAssistants : ConstructWith(b, todo, s)

\* CategoryBrowser.run(), up to the blocking loop.run().
Run(b) ==
    /\ pc[b] = "built"
    /\ NoneRunning
    /\ pc' = [pc EXCEPT ![b] = "running"]
    /\ UNCHANGED <<test_info_list, widget_cache, show_job_ids, sa, child_keys,
                   flagged, expanded, label, selection, earlier_unflagged, plan_vars>>

\* The widget a cache entry refers to is flagged.
widget_flagged(w) == flagged[w.browser][w.node]

\* Mutation of collect: the flag of the widgets is not looked at.
collect_all(cache) == {cache[k].node.key : k \in DOMAIN cache}

\* The selection run() collects from the cache.
collect(cache) == {cache[k].node.key : k \in {k \in DOMAIN cache : widget_flagged(cache[k])}}

\* Mutation of Start: the widget cache is cleared before the selection is
\* collected from it.
Start_clears_first(b) ==
    /\ pc[b] = "running"
    /\ selection' = [selection EXCEPT ![b] = collect(Empty)]
    /\ Store(b, [child_keys |-> Empty, flagged |-> Empty, expanded |-> Empty,
                 label |-> Empty, cache |-> Empty])
    /\ test_info_list' = <<>>
    /\ pc' = [pc EXCEPT ![b] = "done"]
    /\ sa' = [sa EXCEPT ![b] = NoSa]
    /\ earlier_unflagged' =
         (earlier_unflagged \/ \E k \in DOMAIN widget_cache : ~widget_flagged(widget_cache[k]))
    /\ UNCHANGED <<show_job_ids, plan_vars>>

\* Mutation of Start: run() returns without clearing the widget cache.
Start_keeps_cache(b) ==
    /\ pc[b] = "running"
    /\ selection' = [selection EXCEPT ![b] = collect(widget_cache)]
    /\ Store(b, [child_keys |-> Empty, flagged |-> Empty, expanded |-> Empty,
                 label |-> Empty, cache |-> widget_cache])
    /\ test_info_list' = <<>>
    /\ pc' = [pc EXCEPT ![b] = "done"]
    /\ sa' = [sa EXCEPT ![b] = NoSa]
    /\ earlier_unflagged' =
         (earlier_unflagged \/ \E k \in DOMAIN widget_cache : ~widget_flagged(widget_cache[k]))
    /\ UNCHANGED <<show_job_ids, plan_vars>>

\* Key t or T: unhandled_input raises ExitMainLoop, run() collects, clears
\* the globals and returns; the caller keeps the returned set and drops the
\* browser object with its tree.
Start(b) ==
    /\ pc[b] = "running"
    /\ selection' = [selection EXCEPT ![b] = collect(widget_cache)]
    /\ Store(b, [child_keys |-> Empty, flagged |-> Empty, expanded |-> Empty,
                 label |-> Empty, cache |-> Empty])
    /\ test_info_list' = <<>>
    /\ pc' = [pc EXCEPT ![b] = "done"]
    /\ sa' = [sa EXCEPT ![b] = NoSa]
    /\ earlier_unflagged' =
         (earlier_unflagged \/ \E k \in DOMAIN widget_cache : ~widget_flagged(widget_cache[k]))
    /\ UNCHANGED <<show_job_ids, plan_vars>>

\* The space branch of FlagUnitWidget.unhandled_keys on the widget of node n,
\* as a function of the heap.
unhandled_keys_space(h, b, n, til, s, show) ==
    LET h1 == [h EXCEPT !.flagged[n] = ~@]
        h2 == set_descendants_state(h1, b, n, h1.flagged[n], til, s, show)
    IN set_ancestors_state(h2, n, h2.flagged[n])

\* Key space on the widget of node n: FlagUnitWidget.unhandled_keys.  The
\* closing self.update_w() is outside any try block: an AttributeError raised
\* there leaves the handler and ends the main loop.
Space(b, n) ==
    /\ pc[b] = "running"
    /\ n \in DOMAIN flagged[b]
    /\ LET h3 == unhandled_keys_space(Heap(b), b, n, test_info_list, sa[b],
                                      show_job_ids)
       IN /\ Store(b, h3)
          /\ pc' = [pc EXCEPT ![b] = IF update_w_raises(h3, n) THEN "crashed" ELSE @]
    /\ UNCHANGED <<test_info_list, show_job_ids, sa, selection,
                   earlier_unflagged, plan_vars>>

\* Mutation of Enter: leaves are not told apart from the other nodes.
Enter_any_node(b, n) ==
    /\ pc[b] = "running"
    /\ n \in DOMAIN flagged[b]
    /\ expanded' = [expanded EXCEPT ![b][n] = ~@]
    /\ UNCHANGED <<test_info_list, widget_cache, show_job_ids, pc, sa, child_keys,
                   flagged, label, selection, earlier_unflagged, plan_vars>>

\* Key enter on the widget of node n: expands or collapses a non-leaf node;
\* on a leaf the key is returned unhandled.
Enter(b, n) ==
    /\ pc[b] = "running"
    /\ n \in DOMAIN flagged[b]
    /\ expanded' = [expanded EXCEPT ![b][n] = IF is_leaf(n) THEN @ ELSE ~@]
    /\ UNCHANGED <<test_info_list, widget_cache, show_job_ids, pc, sa, child_keys,
                   flagged, label, selection, earlier_unflagged, plan_vars>>

\* FlagUnitWidget.mouse_event: button 1 pressed on the expand icon.
MouseExpand(b, n) ==
    /\ pc[b] = "running"
    /\ n \in DOMAIN flagged[b]
    /\ ~is_leaf(n)
    /\ expanded' = [expanded EXCEPT ![b][n] = ~@]
    /\ UNCHANGED <<test_info_list, widget_cache, show_job_ids, pc, sa, child_keys,
                   flagged, label, selection, earlier_unflagged, plan_vars>>

\* Key i or I on any widget: flips show_job_ids and reloads the inner widget
\* of every widget of the cache.
ToggleIds(b, n) ==
    /\ pc[b] = "running"
    /\ n \in DOMAIN flagged[b]
    /\ show_job_ids' = ~show_job_ids
    /\ label' = [o \in Browsers |->
                   [m \in DOMAIN label[o] |->
                      IF \E k \in DOMAIN widget_cache :
                            widget_cache[k] = [browser |-> o, node |-> m]
                      THEN get_display_text(m, ~show_job_ids)
                      ELSE label[o][m]]]
    /\ UNCHANGED <<test_info_list, widget_cache, pc, sa, child_keys, flagged,
                   expanded, selection, earlier_unflagged, plan_vars>>

Nodes == {RootNode} \cup {CatNode(c) : c \in CategoryIds} \cup {JobNode(j) : j \in JobIds}

\* One browser object at a time: the next one is constructed after run() of
\* the one before has returned.
Next ==
    \E b \in {1} :
        \/ Construct(b)
        \/ Run(b)
        \/ Start(b)
        \/ \E n \in Nodes : Space(b, n)
        \/ \E n \in Nodes : Enter(b, n)
        \/ \E n \in Nodes : MouseExpand(b, n)
        \/ \E n \in Nodes : ToggleIds(b, n)

Spec == Init /\ [][Next]_vars

\* ------------------------------------------------------------- two browsers
\* The categories of the jobs of a todo list.
CategoriesOf(todo) == {todo[j] : j \in DOMAIN todo}

\* A session assistant that knows every category and reports as participating
\* the categories of the jobs of its todo list: every job it gives to the
\* browser is in the tree.
OwnSa(todo) == [participating |-> CategoriesOf(todo), registered |-> CategoryIds]

\* Two browser objects that may both be constructed before either is run;
\* the run() calls are serialized (Run waits for NoneRunning) and the user
\* has the select and start keys.
NextShared ==
    \E b \in Browsers :
        \/ \E todo \in TodoLists : ConstructWith(b, todo, OwnSa(todo))
        \/ Run(b)
        \/ Start(b)
        \/ \E n \in Nodes : Space(b, n)

SpecShared == Init /\ [][NextShared]_vars

\* ------------------------------------------------------------- lost widgets
\* The widget of job leaf n is left without its _w, so that update_w() on it
\* raises the AttributeError set_descendants_state catches.  Nothing in the
\* browser does this: it is the failure the except clause provides for, taken
\* here as an input, one widget at a time and on leaves only (leaves are no
\* ancestors, so set_ancestors_state never meets such a widget).
DetachW(b, n) ==
    /\ pc[b] = "running"
    /\ n \in DOMAIN flagged[b]
    /\ is_leaf(n)
    /\ DOMAIN label[b] = DOMAIN flagged[b]
    /\ label' = [label EXCEPT ![b] = [m \in DOMAIN label[b] \ {n} |-> label[b][m]]]
    /\ UNCHANGED <<test_info_list, widget_cache, show_job_ids, pc, sa, child_keys,
                   flagged, expanded, selection, earlier_unflagged, plan_vars>>

\* One browser at a time, with the select and start keys and a widget that
\* may be lost.
NextFault ==
    \E b \in {1} :
        \/ Construct(b)
        \/ Run(b)
        \/ Start(b)
        \/ \E n \in Nodes : Space(b, n)
        \/ \E n \in Nodes : DetachW(b, n)

SpecFault == Init /\ [][NextFault]_vars

\* ------------------------------------------------------------- TestPlanBrowser
\* Python's truth value of an optional integer: None and 0 are false.
truthy(v) == v # None /\ v[1] # 0

\* list[i] of a list of length n: the position (1-based) Python's index i
\* names, negative indexes counting from the end; 0 when out of range.
list_position(n, i) ==
    IF 0 <= i /\ i < n THEN i + 1
    ELSE IF -n <= i /\ i < 0 THEN n + i + 1
    ELSE 0

\* Mutation of set_state_true: the other buttons of the group are left alone.
set_state_true_keeps_others(group, p) == [i \in 1..Len(group) |-> i = p \/ group[i]]

\* RadioButton.set_state(True) on the button at position p: the other
\* buttons of the group are cleared.
set_state_true(group, p) == [i \in 1..Len(group) |-> i = p]

\* next(radio_button_group.index(i) for i in radio_button_group if i.state),
\* None on StopIteration.
first_selected(group) ==
    IF \E i \in 1..Len(group) : group[i]
    THEN Some((CHOOSE i \in 1..Len(group) :
                  group[i] /\ \A k \in 1..(i - 1) : ~group[k]) - 1)
    ELSE None

\* TestPlanBrowser(title, test_plan_list, selection), up to the blocking
\* MainLoop.run(); an out-of-range selection raises IndexError.
PlanCall ==
    /\ plan_pc = "idle"
    /\ \E n \in 0..MaxPlans, sel \in {None} \cup {Some(i) : i \in (-MaxPlans)..MaxPlans} :
        LET group == [i \in 1..n |-> FALSE]
        IN /\ test_plan_list' = n
           /\ plan_selection' = sel
           /\ plan_changed' = FALSE
           /\ plan_result' = None
           /\ IF ~truthy(sel)
              THEN /\ radio_button_group' = group
                   /\ plan_pc' = "running"
              ELSE IF list_position(n, sel[1]) = 0
              THEN /\ radio_button_group' = group
                   /\ plan_pc' = "raised"
              ELSE /\ radio_button_group' = set_state_true(group, list_position(n, sel[1]))
                   /\ plan_pc' = "running"
    /\ UNCHANGED browser_vars

\* The user activates the radio button at position p.
PlanChoose(p) ==
    /\ plan_pc = "running"
    /\ p \in 1..Len(radio_button_group)
    /\ radio_button_group' = set_state_true(radio_button_group, p)
    /\ plan_changed' = TRUE
    /\ UNCHANGED <<plan_pc, test_plan_list, plan_selection, plan_result, browser_vars>>

\* Key enter: unhandled raises ExitMainLoop and the function returns.
PlanEnter ==
    /\ plan_pc = "running"
    /\ plan_result' = first_selected(radio_button_group)
    /\ plan_pc' = "returned"
    /\ UNCHANGED <<test_plan_list, plan_selection, radio_button_group, plan_changed,
                   browser_vars>>

\* The caller is back in control and may call TestPlanBrowser again.
PlanDone ==
    /\ plan_pc \in {"returned", "raised"}
    /\ plan_pc' = "idle"
    /\ test_plan_list' = 0
    /\ plan_selection' = None
    /\ radio_button_group' = <<>>
    /\ plan_changed' = FALSE
    /\ plan_result' = None
    /\ UNCHANGED browser_vars

NextPlan ==
    \/ PlanCall
    \/ \E p \in 1..MaxPlans : PlanChoose(p)
    \/ PlanEnter
    \/ PlanDone

SpecPlan == Init /\ [][NextPlan]_vars

\* ------------------------------------------------------------- tree views
\* The nodes of browser b that have a widget.
Widgets(b) == DOMAIN flagged[b]

\* The direct children of the loaded non-leaf node n, as nodes.
Children(b, n) ==
    {load_child_node(n, child_keys[b][n][i]) : i \in 1..Len(child_keys[b][n])}

\* The direct children of n that have a widget.
MaterializedChildren(b, n) == Children(b, n) \cap Widgets(b)

\* The descendants of n.
Descendants(b, n) ==
    IF is_leaf(n) THEN {}
    ELSE Children(b, n) \cup UNION {Children(b, c) : c \in {c \in Children(b, n) : ~is_leaf(c)}}

NonLeafWidgets(b) == {n \in Widgets(b) : ~is_leaf(n)}
JobWidgets(b) == {n \in Widgets(b) : is_leaf(n)}

SomeChildFlagged(b, n) == \E c \in MaterializedChildren(b, n) : flagged[b][c]

\* The tree {A: [job1, job2], B: [job3]} with A = 11 and B = 12.
TreeAB(b) ==
    /\ RootNode \in DOMAIN child_keys[b]
    /\ Children(b, RootNode) = {CatNode(11), CatNode(12)}
    /\ child_keys[b][CatNode(11)] = <<1, 2>>
    /\ child_keys[b][CatNode(12)] = <<3>>

\* ------------------------------------------------------------- C1
\* C1 as stated: in every reachable state every non-leaf node N is flagged
\* iff some materialized direct child of N is flagged or N has no
\* materialized child.
C1_FlagIffChildOrChildless ==
    \A b \in Browsers : \A n \in NonLeafWidgets(b) :
        flagged[b][n] <=> (SomeChildFlagged(b, n) \/ MaterializedChildren(b, n) = {})

\* C1 amended: in every reachable state every non-leaf node N that has at
\* least one materialized direct child is flagged iff some materialized
\* direct child of N is flagged.
C1_FlagIffChild ==
    \A b \in Browsers : \A n \in NonLeafWidgets(b) :
        MaterializedChildren(b, n) # {} => (flagged[b][n] <=> SomeChildFlagged(b, n))

\* Toggles have left a category excluded with all its jobs excluded, and the
\* root included through another category with an excluded and an included job.
C1_Witness ==
    \E b \in Browsers :
        /\ pc[b] = "running"
        /\ flagged[b][RootNode]
        /\ \E c, d \in Children(b, RootNode) :
            /\ ~flagged[b][c] /\ Children(b, c) # {}
            /\ flagged[b][d]
            /\ \E j, k \in Children(b, d) : flagged[b][j] /\ ~flagged[b][k]

\* ------------------------------------------------------------- C2
\* C2: a space key on a non-leaf node N leaves every materialized descendant
\* of N with the flag N has after the key, which is the negation of the flag N
\* had before it.
C2_DescendantsFollow ==
    [][\A b \in Browsers : \A n \in Nodes :
         (Space(b, n) /\ ~is_leaf(n)) =>
            /\ flagged'[b][n] = ~flagged[b][n]
            /\ \A d \in Descendants(b, n) \cap Widgets(b) :
                  flagged'[b][d] = flagged'[b][n]]_vars

\* Every node of the tree {A: [job1, job2], B: [job3]} is excluded in a
\* running session, as a space key on the included root leaves it.
C2_Witness ==
    \E b \in Browsers :
        /\ pc[b] = "running"
        /\ TreeAB(b)
        /\ \A n \in Widgets(b) : ~flagged[b][n]

\* ------------------------------------------------------------- C3
\* C3: a space key on an included job leaf excludes its category iff the
\* category had no other included child, and then excludes the root iff the
\* root had no other included child; an ancestor that has another included
\* child, and every ancestor above it, keeps its flag.
C3_ExclusionStopsAtIncludedSibling ==
    [][\A b \in Browsers : \A j \in JobIds :
         (Space(b, JobNode(j)) /\ flagged[b][JobNode(j)]) =>
            LET cat == get_parent(JobNode(j), child_keys[b])
                other_job == \E k \in Children(b, cat) \ {JobNode(j)} : flagged[b][k]
                other_cat == \E c \in Children(b, RootNode) \ {cat} : flagged[b][c]
            IN /\ ~flagged'[b][JobNode(j)]
               /\ IF other_job
                  THEN /\ flagged'[b][cat] = flagged[b][cat]
                       /\ flagged'[b][RootNode] = flagged[b][RootNode]
                  ELSE /\ ~flagged'[b][cat]
                       /\ IF other_cat
                          THEN flagged'[b][RootNode] = flagged[b][RootNode]
                          ELSE ~flagged'[b][RootNode]]_vars

\* A category with one job is excluded with its job, and the root is still
\* included through the other category whose jobs are all included.
C3_Witness ==
    \E b \in Browsers :
        /\ pc[b] = "running"
        /\ TreeAB(b)
        /\ ~flagged[b][JobNode(3)] /\ ~flagged[b][CatNode(12)]
        /\ flagged[b][RootNode] /\ flagged[b][CatNode(11)]
        /\ flagged[b][JobNode(1)] /\ flagged[b][JobNode(2)]

\* ------------------------------------------------------------- C4
\* C4: a space key on an excluded job leaf includes the leaf, its category
\* and the root, and changes the flag of no other job and no other category.
C4_InclusionReachesRoot ==
    [][\A b \in Browsers : \A j \in JobIds :
         (Space(b, JobNode(j)) /\ ~flagged[b][JobNode(j)]) =>
            LET cat == get_parent(JobNode(j), child_keys[b])
            IN /\ flagged'[b][JobNode(j)]
               /\ flagged'[b][cat]
               /\ flagged'[b][RootNode]
               /\ \A n \in Widgets(b) \ {JobNode(j), cat, RootNode} :
                     flagged'[b][n] = flagged[b][n]]_vars

\* One job is included while its sibling and the other category are
\* excluded, as a space key on it leaves an excluded tree: its category and
\* the root are included.
C4_Witness ==
    \E b \in Browsers :
        /\ pc[b] = "running"
        /\ TreeAB(b)
        /\ flagged[b][JobNode(1)] /\ ~flagged[b][JobNode(2)]
        /\ flagged[b][CatNode(11)] /\ flagged[b][RootNode]
        /\ ~flagged[b][CatNode(12)] /\ ~flagged[b][JobNode(3)]

\* ------------------------------------------------------------- C5
\* C5: the start key makes run() return exactly the keys of the job leaves
\* of the tree that are flagged, and no category key; in the tree
\* {A: [job1, job2], B: [job3]}, with job1 and job2 excluded and job3 included
\* A is excluded, B and the root are included and the result is {job3}; with
\* only job3 excluded B is excluded, A is included and the result is
\* {job1, job2}.
C5_RunReturnsFlaggedJobs ==
    [][\A b \in Browsers :
         Start(b) =>
            /\ selection'[b] = {n.key : n \in {n \in JobWidgets(b) : flagged[b][n]}}
            /\ selection'[b] \cap CategoryIds = {}
            /\ (TreeAB(b) /\ ~flagged[b][JobNode(1)] /\ ~flagged[b][JobNode(2)]
                    /\ flagged[b][JobNode(3)]) =>
                  /\ ~flagged[b][CatNode(11)]
                  /\ flagged[b][CatNode(12)] /\ flagged[b][RootNode]
                  /\ selection'[b] = {3}
            /\ (TreeAB(b) /\ flagged[b][JobNode(1)] /\ flagged[b][JobNode(2)]
                    /\ ~flagged[b][JobNode(3)]) =>
                  /\ ~flagged[b][CatNode(12)]
                  /\ flagged[b][CatNode(11)]
                  /\ selection'[b] = {1, 2}]_vars

\* run() has returned {job3} after meeting an excluded job widget.
C5_Witness ==
    \E b \in Browsers :
        /\ pc[b] = "done"
        /\ selection[b] = {3}
        /\ earlier_unflagged

\* ------------------------------------------------------------- C6
\* C6: an i or I key on any node flips show_job_ids, changes no flagged
\* value, no expanded value and not the keys of the widget cache, and leaves
\* every job node labelled by its id when show_job_ids is true and by its
\* name when it is false.
C6_DisplayModeOnlyRelabels ==
    [][\A b \in Browsers : \A n \in Nodes :
         ToggleIds(b, n) =>
            /\ show_job_ids' = ~show_job_ids
            /\ flagged' = flagged
            /\ expanded' = expanded
            /\ DOMAIN widget_cache' = DOMAIN widget_cache
            /\ \A m \in JobWidgets(b) :
                  label'[b][m] = IF show_job_ids' THEN m.key ELSE tr_summary(m.key)]_vars

\* Job ids are shown in a running session where some job is excluded and
\* some category is expanded.
C6_Witness ==
    \E b \in Browsers :
        /\ pc[b] = "running"
        /\ show_job_ids
        /\ \E m \in JobWidgets(b) : label[b][m] = m.key /\ ~flagged[b][m]
        /\ \E c \in NonLeafWidgets(b) : c # RootNode /\ expanded[b][c]

\* ------------------------------------------------------------- C7
\* C7: show_job_ids is false whenever a browser has just been constructed
\* (its session starts) and whenever its run() has returned.
C7_DisplayModeResetPerSession ==
    \A b \in Browsers : pc[b] \in {"built", "done"} => ~show_job_ids

\* ------------------------------------------------------------- C8
\* C8: once run() has returned the widget cache and the job-info list are
\* empty, and a browser constructed afterwards has every node flagged,
\* whatever was excluded in earlier sessions.
C8_NoStateAcrossSessions ==
    \A b \in Browsers :
        /\ pc[b] = "done" => (widget_cache = Empty /\ test_info_list = <<>>)
        /\ pc[b] = "built" =>
              /\ \A n \in Widgets(b) : flagged[b][n]
              /\ \A k \in DOMAIN widget_cache :
                    widget_cache[k].browser = b /\ widget_cache[k].node \in Widgets(b)

\* A browser with three jobs is constructed after a session that ended with
\* an excluded job.
C8_Witness ==
    \E b \in Browsers :
        /\ pc[b] = "built"
        /\ earlier_unflagged
        /\ Cardinality(JobWidgets(b)) = 3
        /\ Cardinality(DOMAIN widget_cache) = 3

\* ------------------------------------------------------------- C9
\* C9: when the user leaves without choosing an entry, TestPlanBrowser
\* returns the pre-selected index i for every index 0 <= i < number of
\* plans, and None when no index was pre-selected.
C9_ReturnsPreselection ==
    (plan_pc = "returned" /\ ~plan_changed) =>
        /\ plan_selection = None => plan_result = None
        /\ (plan_selection # None /\ plan_selection[1] \in 0..(test_plan_list - 1)) =>
              plan_result = plan_selection

\* ------------------------------------------------------------- C10
\* C10: a browser is constructed only if every job of its job list has a
\* category that is registered and participating; otherwise construction
\* fails with a lookup error.
C10_UnknownCategoryRaises ==
    \A b \in Browsers :
        pc[b] = "built" =>
            \A i \in 1..Len(test_info_list) :
                /\ test_info_list[i].category_id \in sa[b].registered
                /\ test_info_list[i].category_id \in sa[b].participating

\* ------------------------------------------------------------- C11
\* C11: an enter key on a non-leaf node flips the expanded value of that node
\* and of no other node, and changes no flagged value, not show_job_ids and
\* not the widget cache; an enter key on a leaf changes nothing; a space key
\* changes no expanded value.
C11_ExpandOnlyExpands ==
    [][\A b \in Browsers : \A n \in Nodes :
         /\ (Enter(b, n) /\ ~is_leaf(n)) =>
               /\ expanded'[b] = [expanded[b] EXCEPT ![n] = ~@]
               /\ flagged' = flagged
               /\ show_job_ids' = show_job_ids
               /\ widget_cache' = widget_cache
         /\ (Enter(b, n) /\ is_leaf(n)) => UNCHANGED vars
         /\ Space(b, n) => expanded' = expanded]_vars

\* The root is collapsed and a category is expanded, while a job is excluded
\* and every leaf still has the expanded value it was created with.
C11_Witness ==
    \E b \in Browsers :
        /\ pc[b] = "running"
        /\ ~expanded[b][RootNode]
        /\ \E c \in NonLeafWidgets(b) : c # RootNode /\ expanded[b][c]
        /\ \E m \in JobWidgets(b) : ~flagged[b][m]
        /\ \A m \in JobWidgets(b) : expanded[b][m]

\* ------------------------------------------------------------- C13
\* C13: when a space key on a non-leaf node N meets a direct child C whose
\* update_w() fails, no exception leaves the handler, the flag of N stays
\* flipped, the ancestors are still updated (an included N has an included
\* root), and every other direct child of N, those after C in child order
\* too, ends with the flag of N.
C13_OtherChildrenStillFollow ==
    [][\A b \in Browsers : \A n \in Nodes :
         (/\ Space(b, n)
          /\ ~is_leaf(n)
          /\ \E c \in Children(b, n) : update_w_raises(Heap(b), c)) =>
            /\ pc'[b] = "running"
            /\ flagged'[b][n] = ~flagged[b][n]
            /\ flagged'[b][n] => flagged'[b][RootNode]
            /\ \A d \in Children(b, n) :
                  ~update_w_raises(Heap(b), d) => flagged'[b][d] = flagged'[b][n]]_vars

\* ------------------------------------------------------------- C12
\* The positions of the selected radio buttons.
SelectedPlans == {i \in 1..Len(radio_button_group) : radio_button_group[i]}

\* C12: in the plan picker at most one entry is selected at any time,
\* choosing entry p leaves p the only selected entry, and the returned index
\* is the index of the selected entry (None when there is none).
C12_SingleSelection ==
    /\ [](Cardinality(SelectedPlans) <= 1)
    /\ [](plan_pc = "returned" =>
            /\ \A i \in SelectedPlans : plan_result = Some(i - 1)
            /\ SelectedPlans = {} => plan_result = None)
    /\ [][\A p \in 1..MaxPlans : PlanChoose(p) => SelectedPlans' = {p}]_vars

\* The picker was called with a pre-selected entry, the user chose another
\* one and the picker returned the index of the chosen entry.
C12_Witness ==
    /\ plan_pc = "returned"
    /\ plan_changed
    /\ truthy(plan_selection)
    /\ plan_result # None
    /\ plan_result # plan_selection
    /\ Cardinality(SelectedPlans) = 1

\* ------------------------------------------------------------- C14
\* C14: a space, enter or i key leaves the browser running, its result
\* uncollected and the widget cache uncleared; a running browser stops
\* running only by the start key; and the start key ends the loop with the
\* result collected from the cache as it was before the key, the cache being
\* empty afterwards.
C14_EndsOnlyOnStart ==
    [][\A b \in Browsers :
         /\ (\E n \in Nodes : Space(b, n) \/ Enter(b, n) \/ ToggleIds(b, n)) =>
               /\ pc'[b] = "running"
               /\ selection' = selection
               /\ widget_cache' = widget_cache
               /\ test_info_list' = test_info_list
         /\ (pc[b] = "running" /\ pc'[b] # "running") => Start(b)
         /\ Start(b) =>
               /\ pc'[b] = "done"
               /\ selection'[b] = collect(widget_cache)
               /\ widget_cache' = Empty
               /\ test_info_list' = <<>>]_vars

\* A session in which the display mode was switched and a job excluded has
\* ended: a non-empty result was collected and the cache is empty.
C14_Witness ==
    \E b \in Browsers :
        /\ pc[b] = "done"
        /\ selection[b] # {}
        /\ selection[b] # JobIds
        /\ show_job_ids
        /\ earlier_unflagged
        /\ widget_cache = Empty
        /\ test_info_list = <<>>

\* ------------------------------------------------------------- C15
\* The elements of a sequence.
Range(q) == {q[i] : i \in 1..Len(q)}

\* The ids of the jobs of the job list whose category is c.
JobsOf(c) == {test_info_list[i].id : i \in {i \in 1..Len(test_info_list) :
                                               test_info_list[i].category_id = c}}

\* C15: in a built or running browser the child keys of the root are exactly
\* the participating categories, in strictly ascending order of translated
\* name; the child keys of each category are exactly the ids of the jobs of
\* that category, in strictly ascending order; and every job whose category
\* participates is a child of exactly one category.
C15_TreeShape ==
    \A b \in Browsers :
        pc[b] \in {"built", "running"} =>
            LET rk == child_keys[b][RootNode]
            IN /\ Range(rk) = sa[b].participating
               /\ \A i, j \in 1..Len(rk) : i < j => tr_name(rk[i]) < tr_name(rk[j])
               /\ \A c \in sa[b].participating :
                     LET jk == child_keys[b][CatNode(c)]
                     IN /\ Range(jk) = JobsOf(c)
                        /\ \A i, j \in 1..Len(jk) : i < j => jk[i] < jk[j]
               /\ \A i \in 1..Len(test_info_list) :
                     test_info_list[i].category_id \in sa[b].participating =>
                        Cardinality({c \in sa[b].participating :
                            test_info_list[i].id \in Range(child_keys[b][CatNode(c)])}) = 1

\* Two categories participate, the one with the larger id first by name; it
\* has two jobs, out of a job list in descending id order, and the other
\* category has the third job.
C15_Witness ==
    \E b \in Browsers :
        /\ pc[b] = "running"
        /\ child_keys[b][RootNode] = <<12, 11>>
        /\ child_keys[b][CatNode(12)] = <<1, 3>>
        /\ child_keys[b][CatNode(11)] = <<2>>
        /\ test_info_list[1].id = 3

\* ------------------------------------------------------------- C16
\* The job ids present in the tree of browser b.
TreeJobIds(b) ==
    UNION {Range(child_keys[b][c]) : c \in {c \in DOMAIN child_keys[b] : c.kind = "cat"}}

AllFlagged(b) == \A n \in Widgets(b) : flagged[b][n]

\* C16: construction leaves every node flagged and every job of the tree
\* with a widget registered in the cache under its id; starting the loop,
\* expanding, collapsing and switching the display mode change neither a flag
\* nor the cache; and the start key pressed while every node is flagged, as
\* it is when nothing was toggled, returns all job ids of the tree.
C16_UntoggledRunReturnsAll ==
    /\ [](\A b \in Browsers :
            pc[b] = "built" =>
                /\ AllFlagged(b)
                /\ \A j \in TreeJobIds(b) :
                      /\ JobNode(j) \in Widgets(b)
                      /\ j \in DOMAIN widget_cache
                      /\ widget_cache[j] = [browser |-> b, node |-> JobNode(j)])
    /\ [][\A b \in Browsers : \A n \in Nodes :
            (Run(b) \/ Enter(b, n) \/ MouseExpand(b, n) \/ ToggleIds(b, n)) =>
                (flagged' = flagged /\ widget_cache' = widget_cache)]_vars
    /\ [][\A b \in Browsers :
            (Start(b) /\ AllFlagged(b)) => selection'[b] = TreeJobIds(b)]_vars

\* A run in which the display mode was switched and no job widget was ever
\* found unflagged returned every job.
C16_Witness ==
    \E b \in Browsers :
        /\ pc[b] = "done"
        /\ selection[b] = JobIds
        /\ show_job_ids
        /\ ~earlier_unflagged

\* ------------------------------------------------------------- C17
\* The heap of browser b after a space key on node n.
AfterSpace(h, b, n) ==
    unhandled_keys_space(h, b, n, test_info_list, sa[b], show_job_ids)

\* C17: in every state of a running browser, two space keys in a row on the
\* same job leaf leave every node of the tree with the flag it has now.
C17_DoubleToggleRestores ==
    \A b \in Browsers :
        pc[b] = "running" =>
            \A n \in JobWidgets(b) :
                AfterSpace(AfterSpace(Heap(b), b, n), b, n).flagged = flagged[b]

\* Job 3 is the only job of its category and is excluded with its category,
\* while the other category is included with one job of two: a space key on
\* job 3 includes its category, and the second one excludes it again.
C17_Witness ==
    \E b \in Browsers :
        /\ pc[b] = "running"
        /\ TreeAB(b)
        /\ ~flagged[b][JobNode(3)]
        /\ ~flagged[b][CatNode(12)]
        /\ flagged[b][JobNode(1)]
        /\ ~flagged[b][JobNode(2)]
        /\ flagged[b][RootNode]
        /\ AfterSpace(Heap(b), b, JobNode(3)).flagged[CatNode(12)]

\* ------------------------------------------------------------- C18
\* C18: whatever the order of the constructions, with serialized run()
\* calls, the set run() returns for a browser holds only ids of the jobs
\* given to that browser (here the jobs of its tree), and holds all of them
\* when nothing was toggled (every widget of the browser is flagged).
C18_RunReturnsOwnJobs ==
    [][\A b \in Browsers :
         Start(b) =>
            /\ selection'[b] \subseteq TreeJobIds(b)
            /\ AllFlagged(b) => selection'[b] = TreeJobIds(b)]_vars

====
